---- MODULE Spec2Model ----
(***************************************************************************)
(* JournalSphere content layer: the day-keyed journal cache                *)
(* (fetchDailyJournalEntries), the change detector (checkForNewArticles),  *)
(* the article-update registry and the poller (startArticlePolling /       *)
(* checkAndNotify / stopArticlePolling) with its checking-status registry. *)
(* Also the multi-source aggregator (fetchArticlesFromAllSources,          *)
(* searchArticlesFromAllSources, fetchTrendingFromAllSources) and the      *)
(* facade's registry of news-update subscribers, the facade's read         *)
(* operations fetchAllArticles and fetchArticlesByCategory, and the theme  *)
(* matcher findRelevantImage.                                              *)
(*                                                                         *)
(* Execution is the single-threaded event loop of the browser: an async    *)
(* function runs synchronously up to its first await; the only suspension  *)
(* points modelled are the upstream request (fetch + response.json()),     *)
(* which is resumed by the event loop, and the await of an already settled *)
(* promise, which is resumed by the microtask queue before the event loop  *)
(* runs any timer or network callback.                                     *)
(***************************************************************************)
EXTENDS Integers, Sequences, FiniteSets, TLC

VARIABLES
    now,                     \* the wall clock, Date.now(), in ms
    storage,                 \* localStorage item 'journalSphere_dailyEntries'
    lastFetchTimestamp,      \* journalApi module state
    articleUpdateListeners,  \* journalApi registry, in subscription order
    requests,                \* number of upstream requests issued so far
    calls,                   \* async calls in flight, by slot
    ret,                     \* record of the call that completed last
    pollingInterval,         \* facade module state: timer handle or 0 (null)
    timers,                  \* active window.setInterval timers
    nextTimer,               \* next handle window.setInterval returns
    isCurrentlyChecking,     \* facade module state: single-flight guard
    checkingStatusListeners, \* facade registry, in subscription order
    statusLog,               \* status notifications delivered so far
    pollInfo,                \* record of the last checkAndNotify invocation
    latestArticlesBySource,  \* aggregator module state: latestArticles
    sourceCall,              \* the aggregator call in flight
    sourceRet,               \* record of the aggregator call completed last
    latestArticles,          \* facade module state
    latestMediaStackArticles,\* facade module state
    newsUpdateListeners,     \* facade registry articleUpdateListeners
    handles,                 \* unsubscribe functions subscribeToNewsUpdates returned
    dropped,                 \* listeners unsubscribed while a publish was delivered
    published,               \* record of the last publish on the facade registry
    imageCall,               \* a call of findRelevantImage: arguments and result
    readCall,                \* the read operation of the facade in flight
    readRet                  \* record of the read operation completed last

vars == <<now, storage, lastFetchTimestamp, articleUpdateListeners, requests,
          calls, ret, pollingInterval, timers, nextTimer, isCurrentlyChecking,
          checkingStatusListeners, statusLog, pollInfo,
          latestArticlesBySource, sourceCall, sourceRet, latestArticles,
          latestMediaStackArticles, newsUpdateListeners, handles, dropped,
          published, imageCall, readCall, readRet>>

journalVars == <<storage, lastFetchTimestamp, articleUpdateListeners, requests,
                 calls, ret>>
pollVars == <<pollingInterval, timers, nextTimer, isCurrentlyChecking,
              checkingStatusListeners, statusLog, pollInfo>>
sourceVars == <<latestArticlesBySource, sourceCall, sourceRet>>
readVars == <<readCall, readRet>>
facadeVars == <<latestArticles, latestMediaStackArticles, newsUpdateListeners,
                handles, dropped, published, readVars>>
imageVars == <<imageCall>>
newsVars == <<sourceVars, facadeVars, imageVars>>

----------------------------------------------------------------------------
(* Program constants *)

DebounceMs == 30000
DayMs == 24 * 60 * 60 * 1000

(* Bounds of the model *)

TickMs == 15000        \* granularity of the clock
MaxTicks == 2          \* number of TickMs steps the clock takes
MaxQuotes == 2         \* longest upstream payload
MaxRequests == 2       \* upstream requests per behaviour
MaxTasks == 2          \* async calls in flight at once
MaxListeners == 2      \* entries per registry
MaxLog == 4            \* status notifications recorded
MaxTimers == 2         \* setInterval calls per behaviour
MaxArticles == 1       \* longest list a news provider returns
MaxLimit == 2          \* largest limit passed to fetchTrendingFromAllSources
MaxSubscriptions == 2  \* subscribeToNewsUpdates calls per behaviour
MaxCalls == 2          \* calls of one unsubscribe function
MaxWords == 2          \* words of a quote
MaxTags == 1           \* tags of a quote

\* the clock starts one tick before a UTC midnight, so that a calendar-day
\* change can fall inside a debounce window or inside a request in flight
StartMs == DayMs - TickMs


----------------------------------------------------------------------------
(* Data *)

\* upstream quotes: two share the content, two share the author
Quotes ==
    << [content |-> "a", author |-> "x"],
       [content |-> "a", author |-> "y"],
       [content |-> "b", author |-> "x"] >>

\* the payloads considered: lists of distinct quotes, in one order
Payloads ==
    LET picks == UNION { [1..n -> 1..Len(Quotes)] : n \in 0..MaxQuotes }
        rising == { p \in picks : \A i \in 1..(Len(p) - 1) : p[i] < p[i + 1] }
    IN  { [i \in 1..Len(p) |-> Quotes[p[i]]] : p \in rising }

\* what the upstream request can come back with: the request rejects, the
\* status is not OK, the body is not the JSON array the code maps over, or
\* a list of quotes
NoResp == [kind |-> "none", quotes |-> <<>>]
Responses ==
    { [kind |-> k, quotes |-> <<>>] : k \in {"neterr", "notok", "unparsable"} }
    \cup { [kind |-> "ok", quotes |-> p] : p \in Payloads }

\* new Date().toISOString().split('T')[0]: the UTC calendar day of the clock
Today(t) == t \div DayMs

\* uuidv4() is a fresh identifier: the number of the request and the index
transformQuoteToJournalEntry(quote, index, req) ==
    [id |-> <<req, index>>, summary |-> quote.content, author |-> quote.author]

TransformAll(quotes, req) ==
    [i \in 1..Len(quotes) |-> transformQuoteToJournalEntry(quotes[i], i, req)]

\* the localStorage item: absent, a string JSON.parse rejects (or parses to
\* null, which the destructuring rejects), or the text of a cache record
NoItem == [kind |-> "none", date |-> 0, entries |-> <<>>]
Garbage == [kind |-> "garbage", date |-> 0, entries |-> <<>>]

\* variant: the entries are added to those of the record in place
JSONstringify_merged(date, entries) ==
    [kind |-> "json", date |-> date, entries |-> storage.entries \o entries]

\* localStorage.setItem(key, JSON.stringify({date, entries})): the item is
\* replaced as a whole
JSONstringify(date, entries) == [kind |-> "json", date |-> date, entries |-> entries]

JSONparseThrows(item) == item.kind = "garbage"

----------------------------------------------------------------------------
(* Listeners and registries *)

\* the callbacks the application registers: one that only consumes the event,
\* one that calls its own unsubscribe function from inside the callback, and
\* one that throws
Listeners == {"plain", "quitter", "thrower"}

\* callbacks that change the registry for another listener: one that
\* subscribes Target and one that calls an unsubscribe function of Target
NewsListeners == Listeners \cup {"adder", "remover"}
Target == "plain"

Behaviour ==
    [l \in NewsListeners |->
        CASE l = "quitter" -> "unsubscribe"
          [] l = "thrower" -> "throw"
          [] l = "adder" -> "subscribe"
          [] l = "remover" -> "unsubscribeOther"
          [] OTHER -> "consume"]

\* Array.prototype.indexOf, 1-based, 0 for -1
IndexOf(reg, l) ==
    IF \E i \in 1..Len(reg) : reg[i] = l
    THEN CHOOSE i \in 1..Len(reg) : reg[i] = l /\ \A j \in 1..(i-1) : reg[j] # l
    ELSE 0

\* variant: the listener stays in the array
Unsubscribed_kept(reg, l) == reg

\* the function subscribe returns: indexOf, then splice(index, 1)
Unsubscribed(reg, l) ==
    LET i == IndexOf(reg, l)
    IN  IF i = 0 THEN reg
        ELSE [k \in 1..(Len(reg) - 1) |-> IF k < i THEN reg[k] ELSE reg[k + 1]]

\* listeners.forEach(listener => listener(x)): the length is read once, the
\* array is read live at each index, an exception ends the loop
RECURSIVE ForEach(_, _, _, _)
ForEach(reg, k, len, log) ==
    IF k > len \/ k > Len(reg)
    THEN [registry |-> reg, delivered |-> log, raised |-> FALSE]
    ELSE LET l == reg[k]
         IN  CASE Behaviour[l] = "throw" ->
                    [registry |-> reg, delivered |-> Append(log, l), raised |-> TRUE]
               [] Behaviour[l] = "unsubscribe" ->
                    ForEach(Unsubscribed(reg, l), k + 1, len, Append(log, l))
               [] Behaviour[l] = "subscribe" ->
                    ForEach(Append(reg, Target), k + 1, len, Append(log, l))
               [] Behaviour[l] = "unsubscribeOther" ->
                    ForEach(Unsubscribed(reg, Target), k + 1, len, Append(log, l))
               [] OTHER ->
                    ForEach(reg, k + 1, len, Append(log, l))

Notify(reg) == ForEach(reg, 1, Len(reg), <<>>)

----------------------------------------------------------------------------
(* Decisions of the journal layer *)

\* variant: the length test is off by one
CacheHit_offByOne(item, currentDate) ==
    item.kind = "json" /\ item.date = currentDate /\ Len(item.entries) > 1

\* fetchDailyJournalEntries: if (date === currentDate && entries && entries.length > 0)
CacheHit(item, currentDate) ==
    item.kind = "json" /\ item.date = currentDate /\ Len(item.entries) > 0

\* variant: the comparison includes the bound
Debounced_inclusive(currentTimestamp, last) == currentTimestamp - last <= DebounceMs

\* checkForNewArticles: if (currentTimestamp - lastFetchTimestamp < 30000)
Debounced(currentTimestamp, last) == currentTimestamp - last < DebounceMs

\* variant: the timestamp is left as it is when the check starts
LastFetchTimestampSet_skipped(currentTimestamp) == lastFetchTimestamp

\* checkForNewArticles: lastFetchTimestamp = currentTimestamp, before the
\* persisted record is read and the request is issued
LastFetchTimestampSet(currentTimestamp) == currentTimestamp

\* checkForNewArticles: hasNewContent
HasNewContent(cachedEntries, latestEntries) ==
    Len(cachedEntries) = 0
    \/ ~ \E c \in 1..Len(cachedEntries) :
            \E f \in 1..Len(latestEntries) :
                /\ latestEntries[f].summary = cachedEntries[c].summary
                /\ latestEntries[f].author = cachedEntries[c].author

----------------------------------------------------------------------------
(* Calls in flight and the record of the last completed call *)

Slots == 1..MaxTasks

Idle ==
    [op |-> "none", pc |-> "none", poll |-> FALSE, req |-> 0,
     currentDate |-> 0, cachedEntries |-> <<>>, stamp |-> 0,
     startNow |-> 0, startLast |-> 0, startStorage |-> NoItem]

RetNone ==
    [op |-> "none", poll |-> FALSE, outcome |-> "none",
     entries |-> <<>>, flag |-> FALSE,
     requested |-> FALSE, resp |-> NoResp, cachedEntries |-> <<>>,
     wrote |-> FALSE, published |-> FALSE, regAtPublish |-> <<>>,
     delivered |-> <<>>, stamp |-> 0,
     startNow |-> 0, startLast |-> 0, startStorage |-> NoItem,
     endNow |-> 0, endLast |-> 0, endStorage |-> NoItem]

FreeSlot(s) ==
    /\ calls[s].op = "none"
    /\ \A r \in Slots : r < s => calls[r].op # "none"

\* a call whose promise is settled and whose awaiting caller is resumed by
\* the microtask queue, before any timer or network callback
MicrotaskPending == \E s \in Slots : calls[s].pc = "settled"

----------------------------------------------------------------------------
(* findRelevantImage *)

\* the theme table; an imageUrl is given by the photo it names
THEMED_JOURNAL_IMAGES ==
    << [theme |-> "mindfulness",
        keywords |-> <<"mindful", "present", "awareness", "meditation",
                       "breath", "calm", "peace">>,
        imageUrl |-> "photo-1506126613408-eca07ce68773",
        description |-> "Person meditating by a peaceful lake at sunrise"],
       [theme |-> "gratitude",
        keywords |-> <<"grateful", "thankful", "appreciation", "blessing",
                       "gift", "abundance">>,
        imageUrl |-> "photo-1518609878373-06d740f60d8b",
        description |-> "Hands holding a small plant growing from soil, symbolizing gratitude and growth"],
       [theme |-> "nature",
        keywords |-> <<"natural", "outdoors", "environment", "earth",
                       "forest", "mountain", "ocean", "wilderness">>,
        imageUrl |-> "photo-1441974231531-c6227db76b6e",
        description |-> "Sunlight streaming through a lush green forest"],
       [theme |-> "growth",
        keywords |-> <<"develop", "improve", "progress", "evolve", "learn",
                       "journey", "potential">>,
        imageUrl |-> "photo-1549576490-b0b4831ef60a",
        description |-> "New plant sprouting from soil, representing personal growth"],
       [theme |-> "reflection",
        keywords |-> <<"reflect", "contemplate", "introspection", "thought",
                       "consider", "ponder", "examine">>,
        imageUrl |-> "photo-1500462918059-b1a0cb512f1d",
        description |-> "Person looking at reflection in calm water"],
       [theme |-> "balance",
        keywords |-> <<"equilibrium", "harmony", "stability", "center",
                       "peace", "moderation">>,
        imageUrl |-> "photo-1519834089823-af2d966a42c4",
        description |-> "Balanced stones stacked on a beach at sunset"],
       [theme |-> "wisdom",
        keywords |-> <<"knowledge", "insight", "understanding", "sage",
                       "philosophy", "enlightenment", "truth">>,
        imageUrl |-> "photo-1532012197267-da84d127e765",
        description |-> "Open book with light illuminating the pages"],
       [theme |-> "creativity",
        keywords |-> <<"create", "imagine", "inspire", "art", "innovation",
                       "expression", "original">>,
        imageUrl |-> "photo-1513364776144-60967b0f800f",
        description |-> "Colorful art supplies and creative workspace"],
       [theme |-> "courage",
        keywords |-> <<"brave", "strength", "fearless", "confidence", "bold",
                       "daring", "overcome">>,
        imageUrl |-> "photo-1520116468816-95b69f847357",
        description |-> "Person standing on mountain peak overlooking vast landscape"],
       [theme |-> "connection",
        keywords |-> <<"relationship", "community", "bond", "together",
                       "unity", "friendship", "love">>,
        imageUrl |-> "photo-1511632765486-a01980e01a18",
        description |-> "People holding hands in unity and support"],
       [theme |-> "simplicity",
        keywords |-> <<"minimal", "essential", "clarity", "focus",
                       "uncomplicated", "basic">>,
        imageUrl |-> "photo-1473186505569-9c61870c11f9",
        description |-> "Minimalist scene with simple objects and clean lines"],
       [theme |-> "resilience",
        keywords |-> <<"endure", "overcome", "persevere", "adapt", "recover",
                       "strength", "determination">>,
        imageUrl |-> "photo-1485236715568-ddc5ee6ca227",
        description |-> "Plant growing through crack in concrete, symbolizing resilience"] >>

\* the words quotes and tags are made of: keywords of one theme and of
\* several, a word that holds a keyword of another theme inside it, a theme
\* name, both with a capital, and a word no theme knows
Words == {"Calm", "peace", "earth", "overcome", "Wisdom", "zebra"}

\* String.prototype.toLowerCase, on a word
ToLowerCase(w) ==
    CASE w = "Calm" -> "calm"
      [] w = "Wisdom" -> "wisdom"
      [] OTHER -> w

\* the keywords that are part of a longer word of Words
PartOf == {<<"art", "earth">>}

\* String.prototype.includes on a text of words separated by blanks; no
\* keyword holds a blank
Includes(text, keyword) ==
    \E i \in 1..Len(text) : text[i] = keyword \/ <<keyword, text[i]>> \in PartOf

\* `${quoteContent} ${tags.join(' ')}`.toLowerCase()
CombinedText(quoteContent, tags) ==
    [i \in 1..(Len(quoteContent) + Len(tags)) |->
        ToLowerCase((quoteContent \o tags)[i])]

\* theme.keywords.filter(keyword => combinedText.includes(keyword)).length
MatchCount(theme, combinedText) ==
    Cardinality({k \in 1..Len(theme.keywords) :
                    Includes(combinedText, ToLowerCase(theme.keywords[k]))})

RECURSIVE MapScores(_, _)
\* THEMED_JOURNAL_IMAGES.map(theme => ({theme, score})) up to entry t; the
\* score matchCount / theme.keywords.length is kept as the pair of its
\* numerator and denominator
MapScores(combinedText, t) ==
    IF t = 0 THEN <<>>
    ELSE Append(MapScores(combinedText, t - 1),
                [theme |-> THEMED_JOURNAL_IMAGES[t],
                 matchCount |-> MatchCount(THEMED_JOURNAL_IMAGES[t], combinedText),
                 count |-> Len(THEMED_JOURNAL_IMAGES[t].keywords)])

ThemeScores(combinedText) == MapScores(combinedText, Len(THEMED_JOURNAL_IMAGES))

\* a.score > b.score
ScoreAbove(a, b) == a.matchCount * b.count > b.matchCount * a.count

\* variant: of two themes with the same score the later one goes first
GoesBefore_onTies(a, b) == ~ScoreAbove(b, a)

\* the comparator (a, b) => b.score - a.score is negative: a goes before b
GoesBefore(a, b) == ScoreAbove(a, b)

RECURSIVE InsertSorted(_, _)
\* x is put behind every element that does not have to go behind it
InsertSorted(sorted, x) ==
    IF sorted = <<>> THEN <<x>>
    ELSE IF GoesBefore(x, sorted[Len(sorted)])
         THEN Append(InsertSorted(SubSeq(sorted, 1, Len(sorted) - 1), x),
                     sorted[Len(sorted)])
         ELSE Append(sorted, x)

RECURSIVE SortFrom(_, _, _)
SortFrom(seq, k, sorted) ==
    IF k > Len(seq) THEN sorted
    ELSE SortFrom(seq, k + 1, InsertSorted(sorted, seq[k]))

\* Array.prototype.sort with the comparator: a stable sort
SortByScore(themeScores) == SortFrom(themeScores, 1, <<>>)

ImageOf(theme) == [url |-> theme.imageUrl, description |-> theme.description]

Undefined == [url |-> "undefined", description |-> "undefined"]

\* THEMED_JOURNAL_IMAGES.find(theme => theme.theme === tagToMatch ||
\*                            theme.keywords.some(k => k === tagToMatch))
TagMatch(tagToMatch) ==
    LET hits == { t \in 1..Len(THEMED_JOURNAL_IMAGES) :
                    \/ ToLowerCase(THEMED_JOURNAL_IMAGES[t].theme) = tagToMatch
                    \/ \E k \in 1..Len(THEMED_JOURNAL_IMAGES[t].keywords) :
                          ToLowerCase(THEMED_JOURNAL_IMAGES[t].keywords[k])
                              = tagToMatch }
    IN  IF hits = {} THEN 0
        ELSE CHOOSE t \in hits : \A u \in hits : t <= u

\* random: what Math.floor(Math.random() * THEMED_JOURNAL_IMAGES.length)
\* comes to, counted from 1
FindRelevantImage(quoteContent, tags, random) ==
    LET combinedText == CombinedText(quoteContent, tags)
        themeScores == SortByScore(ThemeScores(combinedText))
        tagMatch == IF Len(tags) > 0 THEN TagMatch(ToLowerCase(tags[1])) ELSE 0
    IN  IF themeScores[1].matchCount > 0
        THEN ImageOf(themeScores[1].theme)
        ELSE IF tagMatch # 0
        THEN ImageOf(THEMED_JOURNAL_IMAGES[tagMatch])
        ELSE IF random \in 1..Len(THEMED_JOURNAL_IMAGES)
        THEN ImageOf(THEMED_JOURNAL_IMAGES[random])
        ELSE Undefined

\* texts of at most n words
Texts(n) == UNION { [1..k -> Words] : k \in 0..n }

\* no call of findRelevantImage
NoImageCall == [called |-> FALSE]

\* the call findRelevantImage(quoteContent, tags), not yet made
ImageCall(quoteContent, tags) ==
    [quoteContent |-> quoteContent, tags |-> tags, called |-> FALSE,
     result |-> Undefined]

\* a call findRelevantImage(quoteContent, tags) is made and returns
findRelevantImage ==
    /\ imageCall # NoImageCall
    /\ ~imageCall.called
    /\ \E random \in 1..Len(THEMED_JOURNAL_IMAGES) :
          imageCall' = [imageCall EXCEPT
                           !.called = TRUE,
                           !.result = FindRelevantImage(imageCall.quoteContent,
                                                        imageCall.tags, random)]
    /\ UNCHANGED <<now, journalVars, pollVars, sourceVars, facadeVars>>

----------------------------------------------------------------------------
(* The multi-source aggregator: data *)

NewsApiSource == {"mediastack", "newsapi", "guardian"}

API_PRIORITY == <<"mediastack", "newsapi", "guardian">>

\* the apiPriority arguments considered: none, the default, a list that
\* leaves a source out, a list that names a source twice
PriorityLists ==
    { <<>>, API_PRIORITY, <<"guardian", "mediastack">>, <<"newsapi", "newsapi">> }

\* a NewsArticle as a provider returns it: its identity, its trending flag,
\* and the apiSource field, which only fetchTrendingFromAllSources sets
Article(src, i, isTrending) ==
    [id |-> <<src, i>>, trending |-> isTrending, apiSource |-> "none"]

ProviderLists(src) ==
    UNION { { [i \in 1..n |-> Article(src, i, f[i])] : f \in [1..n -> BOOLEAN] }
            : n \in 0..MaxArticles }

\* what the awaited provider call comes back with: it rejects, or it
\* resolves to a list of articles
ProviderResponses(src) ==
    { [kind |-> "throw", articles |-> <<>>] }
    \cup { [kind |-> "ok", articles |-> l] : l \in ProviderLists(src) }

\* the call in flight: the priority list it iterates, the position of the
\* provider it awaits, the providers invoked and the answers received so far
NoCall ==
    [op |-> "none", apiPriority |-> <<>>, pos |-> 0, invoked |-> <<>>,
     answers |-> <<>>, allArticles |-> <<>>, limit |-> 0]

SourceRetNone ==
    [op |-> "none", apiPriority |-> <<>>, invoked |-> <<>>, answers |-> <<>>,
     outcome |-> "none", result |-> <<>>, allArticles |-> <<>>, limit |-> 0]

\* no publish on the facade registry yet
NoPublish ==
    [happened |-> FALSE, payload |-> <<>>, before |-> <<>>, delivered |-> <<>>,
     raised |-> FALSE, droppedBefore |-> {}]

\* the categories asked for: the journal and one served by the provider
Categories == {"journal", "technology"}

\* the static dataset of mockNewsData, one article here
MockArticles == << [id |-> <<"mock", 1>>, trending |-> FALSE,
                    category |-> "technology"] >>

\* getAllArticles()
getAllArticles == MockArticles

\* getArticlesByCategory(category)
getArticlesByCategory(category) ==
    IF category = MockArticles[1].category THEN MockArticles ELSE <<>>

\* no read operation in flight
NoRead == [op |-> "none", pc |-> "none"]

\* a read operation in flight: its arguments, the call it awaits (pc) and
\* the journal entries it has obtained
ReadCall(op, forceRefresh, category) ==
    [op |-> op, pc |-> "none", forceRefresh |-> forceRefresh,
     category |-> category, journalArticles |-> <<>>]

\* no read operation completed yet
ReadRetNone == [op |-> "none", failed |-> FALSE]

\* Array.prototype.filter
RECURSIVE Filter(_, _)
Filter(seq, keepTrending) ==
    IF Len(seq) = 0 THEN <<>>
    ELSE LET rest == Filter(SubSeq(seq, 1, Len(seq) - 1), keepTrending)
             last == seq[Len(seq)]
         IN  IF last.trending = keepTrending THEN Append(rest, last) ELSE rest

\* Array.prototype.slice(0, n) for n >= 0
Slice(seq, n) == SubSeq(seq, 1, IF n < Len(seq) THEN n ELSE Len(seq))

InsertAt(seq, i, x) == SubSeq(seq, 1, i - 1) \o <<x>> \o SubSeq(seq, i, Len(seq))

\* [...list].sort(() => 0.5 - Math.random()): the copy in any order
RECURSIVE Shuffle(_)
Shuffle(seq) ==
    IF Len(seq) = 0 THEN { <<>> }
    ELSE UNION { { InsertAt(p, i, seq[Len(seq)]) : i \in 1..Len(seq) }
                 : p \in Shuffle(SubSeq(seq, 1, Len(seq) - 1)) }

----------------------------------------------------------------------------
(* Environment: the clock, the storage, the subscribers *)

\* the state of the modules once they are loaded
InitModules ==
    /\ now = StartMs
    /\ storage = NoItem
    /\ lastFetchTimestamp = 0
    /\ articleUpdateListeners = <<>>
    /\ requests = 0
    /\ calls = [s \in Slots |-> Idle]
    /\ ret = RetNone
    /\ pollingInterval = 0
    /\ timers = {}
    /\ nextTimer = 1
    /\ isCurrentlyChecking = FALSE
    /\ checkingStatusListeners = <<>>
    /\ statusLog = <<>>
    /\ pollInfo = [outcome |-> "none", src |-> "none", intervalMs |-> 0,
                   flagBefore |-> FALSE, inFlightBefore |-> 0, stuck |-> FALSE]
    /\ latestArticlesBySource = [src \in NewsApiSource |-> <<>>]
    /\ sourceCall = NoCall
    /\ sourceRet = SourceRetNone
    /\ latestArticles = <<>>
    /\ latestMediaStackArticles = <<>>
    /\ newsUpdateListeners = <<>>
    /\ handles = <<>>
    /\ dropped = {}
    /\ published = NoPublish
    /\ readCall = NoRead
    /\ readRet = ReadRetNone

Init ==
    /\ InitModules
    /\ imageCall = NoImageCall

TicksTaken == (now - StartMs) \div TickMs

\* time passes between two tasks of the event loop
Tick ==
    /\ ~MicrotaskPending
    /\ TicksTaken < MaxTicks
    /\ now' = now + TickMs
    /\ UNCHANGED <<journalVars, pollVars, newsVars>>

\* the persisted item is replaced, outside the program, by a string that
\* JSON.parse rejects
CorruptStorage ==
    /\ storage # Garbage
    /\ storage' = Garbage
    /\ UNCHANGED <<newsVars, now, lastFetchTimestamp, articleUpdateListeners, requests,
                   calls, ret, pollVars>>

subscribeToArticleUpdates(l) ==
    /\ Len(articleUpdateListeners) < MaxListeners
    /\ articleUpdateListeners' = Append(articleUpdateListeners, l)
    /\ UNCHANGED <<newsVars, now, storage, lastFetchTimestamp, requests, calls, ret,
                   pollVars>>

\* the unsubscribe function returned by subscribeToArticleUpdates(l)
unsubscribeFromArticleUpdates(l) ==
    /\ articleUpdateListeners' = Unsubscribed(articleUpdateListeners, l)
    /\ UNCHANGED <<newsVars, now, storage, lastFetchTimestamp, requests, calls, ret,
                   pollVars>>

----------------------------------------------------------------------------
(* fetchDailyJournalEntries *)

\* the catch block: serve the persisted entries regardless of their date
DailyCatch(item) ==
    IF item.kind = "none" THEN [outcome |-> "returned", entries |-> <<>>]
    ELSE IF JSONparseThrows(item) THEN [outcome |-> "raised", entries |-> <<>>]
    ELSE IF Len(item.entries) > 0
         THEN [outcome |-> "returned", entries |-> item.entries]
         ELSE [outcome |-> "returned", entries |-> <<>>]

\* variant: the date is computed again when the record is written
DailyRecordDate_atWrite(c) == Today(now)

\* the date written with the entries: the currentDate the call computed
\* before it looked at the cache
DailyRecordDate(c) == c.currentDate

\* the call up to its first await
fetchDailyJournalEntriesSync ==
    LET currentDate == Today(now)
        base == [RetNone EXCEPT !.op = "daily", !.startNow = now,
                                !.startLast = lastFetchTimestamp,
                                !.startStorage = storage, !.endNow = now,
                                !.endLast = lastFetchTimestamp,
                                !.endStorage = storage]
    IN  /\ IF storage.kind # "none" /\ JSONparseThrows(storage)
           THEN LET c == DailyCatch(storage)
                IN  /\ ret' = [base EXCEPT !.outcome = c.outcome,
                                           !.entries = c.entries]
                    /\ UNCHANGED <<requests, calls>>
           ELSE IF CacheHit(storage, currentDate)
           THEN /\ ret' = [base EXCEPT !.outcome = "returned",
                                       !.entries = storage.entries]
                /\ UNCHANGED <<requests, calls>>
           ELSE /\ requests < MaxRequests
                /\ requests' = requests + 1
                /\ \E s \in Slots :
                      /\ FreeSlot(s)
                      /\ calls' = [calls EXCEPT ![s] =
                            [Idle EXCEPT !.op = "daily", !.pc = "fetch",
                                         !.req = requests + 1,
                                         !.currentDate = currentDate,
                                         !.startNow = now,
                                         !.startLast = lastFetchTimestamp,
                                         !.startStorage = storage]]
                /\ UNCHANGED ret
        /\ UNCHANGED <<storage, lastFetchTimestamp, articleUpdateListeners>>

\* a direct call of the exported function
fetchDailyJournalEntries ==
    /\ fetchDailyJournalEntriesSync
    /\ UNCHANGED <<newsVars, now, pollVars>>

\* the rest of the call, once its upstream request has come back with resp
fetchDailyJournalEntriesResume(s, resp) ==
    LET c == calls[s]
        base == [RetNone EXCEPT !.op = "daily", !.requested = TRUE,
                                !.resp = resp, !.startNow = c.startNow,
                                !.startLast = c.startLast,
                                !.startStorage = c.startStorage,
                                !.endNow = now,
                                !.endLast = lastFetchTimestamp]
    IN  /\ c.op = "daily" /\ c.pc = "fetch"
        /\ IF resp.kind = "ok"
           THEN LET journalEntries == TransformAll(resp.quotes, c.req)
                    item == JSONstringify(DailyRecordDate(c), journalEntries)
                IN  /\ storage' = item
                    /\ ret' = [base EXCEPT !.outcome = "returned",
                                           !.entries = journalEntries,
                                           !.wrote = TRUE,
                                           !.endStorage = storage']
           ELSE LET e == DailyCatch(storage)
                IN  /\ ret' = [base EXCEPT !.outcome = e.outcome,
                                           !.entries = e.entries,
                                           !.endStorage = storage]
                    /\ UNCHANGED storage
        /\ calls' = [calls EXCEPT ![s] = Idle]
        /\ UNCHANGED <<lastFetchTimestamp, articleUpdateListeners, requests>>

\* the upstream request of the direct call s comes back with resp
ResumeDaily(s, resp) ==
    /\ ~MicrotaskPending
    /\ fetchDailyJournalEntriesResume(s, resp)
    /\ UNCHANGED <<newsVars, now, pollVars>>

----------------------------------------------------------------------------
(* checkForNewArticles *)

\* the call settles before its first await: it is debounced, or JSON.parse
\* of the persisted item throws into the catch block
CheckSettlesSync ==
    \/ Debounced(now, lastFetchTimestamp)
    \/ (storage.kind # "none" /\ JSONparseThrows(storage))

\* what is recorded of a completed check: checkAndNotify awaits the check
\* and discards what it returns, so of a check it started only the outcome
\* and the effects are recorded
Observed(poll, r) ==
    IF poll
    THEN [RetNone EXCEPT !.op = r.op, !.poll = TRUE, !.outcome = r.outcome,
                         !.flag = r.flag, !.requested = r.requested,
                         !.resp = [kind |-> r.resp.kind, quotes |-> <<>>],
                         !.wrote = r.wrote, !.published = r.published]
    ELSE r

\* variant: the catch block rethrows
CheckCatch_rethrow == [outcome |-> "raised", flag |-> FALSE]

\* the catch block: console.error, return false
CheckCatch == [outcome |-> "returned", flag |-> FALSE]

\* the call up to its first await; poll: it is awaited by checkAndNotify;
\* keep: the awaiting caller is resumed later, by the microtask queue
checkForNewArticlesSync(poll, keep) ==
    LET currentTimestamp == now
        base == [RetNone EXCEPT !.op = "check", !.poll = poll,
                                !.outcome = "returned", !.startNow = now,
                                !.startLast = lastFetchTimestamp,
                                !.startStorage = storage, !.endNow = now,
                                !.endStorage = storage]
        settle == IF keep
                  THEN \E s \in Slots :
                          /\ FreeSlot(s)
                          /\ calls' = [calls EXCEPT ![s] =
                                [Idle EXCEPT !.op = "check", !.pc = "settled",
                                             !.poll = poll]]
                  ELSE UNCHANGED calls
    IN  /\ IF Debounced(currentTimestamp, lastFetchTimestamp)
           THEN /\ UNCHANGED <<lastFetchTimestamp, requests>>
                /\ ret' = Observed(poll, [base EXCEPT !.endLast = lastFetchTimestamp'])
                /\ settle
           ELSE /\ lastFetchTimestamp' = LastFetchTimestampSet(currentTimestamp)
                /\ IF storage.kind # "none" /\ JSONparseThrows(storage)
                   THEN /\ ret' = Observed(poll,
                                  [base EXCEPT !.outcome = CheckCatch.outcome,
                                               !.flag = CheckCatch.flag,
                                               !.endLast = lastFetchTimestamp',
                                               !.stamp = lastFetchTimestamp'])
                        /\ UNCHANGED requests
                        /\ settle
                   ELSE /\ requests < MaxRequests
                        /\ requests' = requests + 1
                        /\ \E s \in Slots :
                              /\ FreeSlot(s)
                              /\ calls' = [calls EXCEPT ![s] =
                                    [Idle EXCEPT
                                        !.op = "check", !.pc = "fetch",
                                        !.poll = poll, !.req = requests + 1,
                                        !.cachedEntries =
                                            IF storage.kind = "none" THEN <<>>
                                            ELSE storage.entries,
                                        !.stamp = lastFetchTimestamp',
                                        !.startNow = now,
                                        !.startLast = lastFetchTimestamp]]
                        /\ UNCHANGED ret
        /\ UNCHANGED <<storage, articleUpdateListeners>>

\* the rest of the call, once its upstream request has come back with resp
checkForNewArticlesResume(s, resp) ==
    LET c == calls[s]
        latestEntries == TransformAll(resp.quotes, c.req)
        hasNewContent == HasNewContent(c.cachedEntries, latestEntries)
        item == JSONstringify(Today(now), latestEntries)
        pub == Notify(articleUpdateListeners)
        base == [RetNone EXCEPT !.op = "check", !.poll = c.poll,
                                !.outcome = "returned", !.requested = TRUE,
                                !.resp = resp,
                                !.cachedEntries = c.cachedEntries,
                                !.entries = latestEntries,
                                !.stamp = c.stamp,
                                !.startNow = c.startNow,
                                !.startLast = c.startLast,
                                !.endNow = now,
                                !.endLast = lastFetchTimestamp]
    IN  /\ IF resp.kind # "ok"
           THEN \* fetch rejects, the status is not OK, or the payload
                \* cannot be read: into the catch block
                /\ UNCHANGED <<storage, articleUpdateListeners>>
                /\ ret' = Observed(c.poll,
                          [base EXCEPT !.outcome = CheckCatch.outcome,
                                       !.flag = CheckCatch.flag,
                                       !.entries = <<>>,
                                       !.endStorage = storage'])
           ELSE IF hasNewContent
           THEN /\ storage' = item
                /\ articleUpdateListeners' = pub.registry
                /\ ret' = Observed(c.poll,
                          [base EXCEPT
                              !.outcome = IF pub.raised THEN CheckCatch.outcome
                                          ELSE "returned",
                              !.flag = IF pub.raised THEN CheckCatch.flag
                                       ELSE TRUE,
                              !.wrote = TRUE, !.published = TRUE,
                              !.regAtPublish = articleUpdateListeners,
                              !.delivered = pub.delivered,
                              !.endStorage = storage'])
           ELSE /\ UNCHANGED <<storage, articleUpdateListeners>>
                /\ ret' = Observed(c.poll, [base EXCEPT !.endStorage = storage'])
        /\ calls' = [calls EXCEPT ![s] = Idle]
        /\ UNCHANGED <<lastFetchTimestamp, requests>>

\* a direct call of the exported function
checkForNewArticles ==
    /\ checkForNewArticlesSync(FALSE, FALSE)
    /\ UNCHANGED <<newsVars, now, pollVars>>

----------------------------------------------------------------------------
(* The poller *)

Intervals == {500, 1000}

PollsInFlight ==
    Cardinality({s \in Slots : calls[s].op = "check" /\ calls[s].poll})

\* variant: no single-flight test
GuardSkips_never(flag) == FALSE

\* checkAndNotify: if (isCurrentlyChecking) return
GuardSkips(flag) == flag

\* variant: the flag is not reset
GuardAfterCheck_kept == isCurrentlyChecking

\* checkAndNotify, finally block: isCurrentlyChecking = false
GuardAfterCheck == FALSE

subscribeToCheckingStatus(l) ==
    /\ Len(checkingStatusListeners) < MaxListeners
    /\ checkingStatusListeners' = Append(checkingStatusListeners, l)
    /\ UNCHANGED <<newsVars, now, journalVars, pollingInterval, timers, nextTimer,
                   isCurrentlyChecking, statusLog, pollInfo>>

\* the unsubscribe function returned by subscribeToCheckingStatus(l)
unsubscribeFromCheckingStatus(l) ==
    /\ checkingStatusListeners' = Unsubscribed(checkingStatusListeners, l)
    /\ UNCHANGED <<newsVars, now, journalVars, pollingInterval, timers, nextTimer,
                   isCurrentlyChecking, statusLog, pollInfo>>

\* variant: the end of a check is announced as a start
StatusAtEnd_true == TRUE

\* checkAndNotify, finally block: notifyCheckingStatusListeners(false)
StatusAtEnd == FALSE

\* variant: the guard is not taken
GuardOnStart_unset == isCurrentlyChecking

\* checkAndNotify: isCurrentlyChecking = true
GuardOnStart == TRUE

\* one invocation of checkAndNotify, the closure of the call
\* startArticlePolling(intervalMs), from that call itself ("start") or from
\* the interval timer it set up ("timer")
checkAndNotify(src, intervalMs) ==
    LET info == [outcome |-> "none", src |-> src, intervalMs |-> intervalMs,
                 flagBefore |-> isCurrentlyChecking,
                 inFlightBefore |-> PollsInFlight, stuck |-> pollInfo.stuck]
        up == Notify(checkingStatusListeners)
        down == Notify(up.registry)
    IN  IF GuardSkips(isCurrentlyChecking)
        THEN /\ pollInfo' = [info EXCEPT !.outcome = "skipped"]
             /\ UNCHANGED <<journalVars, isCurrentlyChecking,
                            checkingStatusListeners, statusLog>>
        ELSE /\ Len(statusLog) + 2 <= MaxLog
             /\ IF up.raised
                THEN \* the listener's exception leaves checkAndNotify before
                     \* the try block
                     /\ isCurrentlyChecking' = GuardOnStart
                     /\ checkingStatusListeners' = up.registry
                     /\ statusLog' = Append(statusLog, TRUE)
                     /\ pollInfo' = [info EXCEPT !.outcome = "aborted",
                                                 !.stuck = TRUE]
                     /\ UNCHANGED journalVars
                ELSE /\ checkForNewArticlesSync(TRUE, src = "start")
                     /\ IF CheckSettlesSync /\ src = "timer"
                        THEN \* nothing runs between the timer callback and
                             \* the microtask that runs the finally block
                             /\ isCurrentlyChecking' = GuardAfterCheck
                             /\ checkingStatusListeners' = down.registry
                             /\ statusLog' = statusLog \o <<TRUE, StatusAtEnd>>
                             /\ pollInfo' = [info EXCEPT !.outcome = "completed"]
                        ELSE /\ isCurrentlyChecking' = GuardOnStart
                             /\ checkingStatusListeners' = up.registry
                             /\ statusLog' = Append(statusLog, TRUE)
                             /\ pollInfo' = [info EXCEPT !.outcome = "started"]

\* variant: the timer goes on
clearInterval_noop(active, handle) == active

\* window.clearInterval
clearInterval(active, handle) == {t \in active : t.id # handle}

\* variant: the first check waits for the first interval
ChecksImmediately_not == FALSE

\* startArticlePolling: checkAndNotify() before setInterval
ChecksImmediately == TRUE

startArticlePolling(intervalMs) ==
    /\ nextTimer <= MaxTimers
    /\ IF ChecksImmediately
       THEN checkAndNotify("start", intervalMs)
       ELSE UNCHANGED <<journalVars, isCurrentlyChecking,
                        checkingStatusListeners, statusLog, pollInfo>>
    /\ timers' = clearInterval(timers, pollingInterval)
                 \cup {[id |-> nextTimer, interval |-> intervalMs]}
    /\ pollingInterval' = nextTimer
    /\ nextTimer' = nextTimer + 1
    /\ UNCHANGED <<newsVars, now>>

\* variant: the handle of the cleared timer is kept
StoppedHandle_kept == pollingInterval

\* stopArticlePolling: pollingInterval = null
StoppedHandle == 0

stopArticlePolling ==
    /\ IF pollingInterval # 0
       THEN /\ timers' = clearInterval(timers, pollingInterval)
            /\ pollingInterval' = StoppedHandle
       ELSE UNCHANGED <<timers, pollingInterval>>
    /\ UNCHANGED <<newsVars, now, journalVars, nextTimer, isCurrentlyChecking,
                   checkingStatusListeners, statusLog, pollInfo>>

\* the interval timer t fires
TimerFire(t) ==
    /\ ~MicrotaskPending
    /\ t \in timers
    /\ checkAndNotify("timer", t.interval)
    /\ UNCHANGED <<newsVars, now, pollingInterval, timers, nextTimer>>

\* the finally block of checkAndNotify
Finally ==
    LET down == Notify(checkingStatusListeners)
    IN  /\ isCurrentlyChecking' = GuardAfterCheck
        /\ checkingStatusListeners' = down.registry
        /\ statusLog' = Append(statusLog, StatusAtEnd)

\* checkAndNotify resumes after a check that settled before its first await
PollFinish(s) ==
    /\ calls[s].pc = "settled"
    /\ Finally
    /\ calls' = [calls EXCEPT ![s] = Idle]
    /\ UNCHANGED <<newsVars, now, storage, lastFetchTimestamp, articleUpdateListeners,
                   requests, ret, pollingInterval, timers, nextTimer, pollInfo>>

\* the upstream request of check s comes back with resp; a check awaited by
\* checkAndNotify is followed by the finally block in the same task
ResumeCheck(s, resp) ==
    /\ ~MicrotaskPending
    /\ calls[s].op = "check" /\ calls[s].pc = "fetch"
    /\ checkForNewArticlesResume(s, resp)
    /\ IF calls[s].poll
       THEN Finally
       ELSE UNCHANGED <<isCurrentlyChecking, checkingStatusListeners, statusLog>>
    /\ UNCHANGED <<newsVars, now, pollingInterval, timers, nextTimer, pollInfo>>

----------------------------------------------------------------------------
(* fetchArticlesFromAllSources and searchArticlesFromAllSources *)

\* variant: a list of one article is treated like an empty one
Yields_moreThanOne(articles) == Len(articles) > 1

\* if (articles.length > 0)
Yields(articles) == Len(articles) > 0

\* variant: the catch block rethrows
ProviderCatch_rethrow == "rethrow"

\* catch (error): console.error, continue with the next API source
ProviderCatch == "continue"

\* variant: the list is stored under the first key of the priority list
StoredKey_first(c) == c.apiPriority[1]

\* latestArticles[apiSource] = articles
StoredKey(c) == c.apiPriority[c.pos]

\* the call up to its first await: the loop is entered and the first
\* provider invoked, or the priority list is empty and the call returns []
StartFallback(op, apiPriority) ==
    /\ sourceCall.op = "none"
    /\ IF Len(apiPriority) = 0
       THEN /\ sourceRet' = [SourceRetNone EXCEPT !.op = op,
                                                  !.outcome = "returned"]
            /\ UNCHANGED sourceCall
       ELSE /\ sourceCall' = [NoCall EXCEPT !.op = op,
                                            !.apiPriority = apiPriority,
                                            !.pos = 1,
                                            !.invoked = <<apiPriority[1]>>]
            /\ sourceRet' = SourceRetNone
    /\ UNCHANGED <<now, journalVars, pollVars, imageVars, facadeVars, latestArticlesBySource>>

\* the awaited provider comes back with resp: return its list if it has
\* articles, else go on with the next provider or return []
ResumeFallback(op, resp) ==
    LET c == sourceCall
        apiSource == c.apiPriority[c.pos]
        answers == Append(c.answers, resp)
        done == [SourceRetNone EXCEPT !.op = op,
                                      !.apiPriority = c.apiPriority,
                                      !.invoked = c.invoked,
                                      !.answers = answers,
                                      !.outcome = "returned"]
    IN  /\ c.op = op
        /\ resp \in ProviderResponses(apiSource)
        /\ IF resp.kind = "ok" /\ Yields(resp.articles)
           THEN /\ IF op = "fetch"
                   THEN latestArticlesBySource' =
                            [latestArticlesBySource EXCEPT
                                ![StoredKey(c)] = resp.articles]
                   ELSE UNCHANGED latestArticlesBySource
                /\ sourceRet' = [done EXCEPT !.result = resp.articles]
                /\ sourceCall' = NoCall
           ELSE IF resp.kind = "throw" /\ ProviderCatch = "rethrow"
           THEN /\ sourceRet' = [done EXCEPT !.outcome = "raised"]
                /\ sourceCall' = NoCall
                /\ UNCHANGED latestArticlesBySource
           ELSE IF c.pos < Len(c.apiPriority)
           THEN /\ sourceCall' =
                      [c EXCEPT !.pos = c.pos + 1,
                                !.invoked = Append(c.invoked,
                                                   c.apiPriority[c.pos + 1]),
                                !.answers = answers]
                /\ UNCHANGED <<sourceRet, latestArticlesBySource>>
           ELSE /\ sourceRet' = done
                /\ sourceCall' = NoCall
                /\ UNCHANGED latestArticlesBySource
        /\ UNCHANGED <<now, journalVars, pollVars, imageVars, facadeVars>>

fetchArticlesFromAllSources(apiPriority) == StartFallback("fetch", apiPriority)

ResumeFetch(resp) == ResumeFallback("fetch", resp)

searchArticlesFromAllSources(apiPriority) == StartFallback("search", apiPriority)

ResumeSearch(resp) == ResumeFallback("search", resp)

----------------------------------------------------------------------------
(* fetchTrendingFromAllSources *)

\* variant: the loop ends at the first provider that returns articles
TrendingGoesOn_untilSuccess(resp) == ~(resp.kind = "ok" /\ Len(resp.articles) > 0)

\* the loop has no return and no break
TrendingGoesOn(resp) == TRUE

\* variant: the backfill takes limit articles
BackfillCount_limit(limit, trendingArticles) == limit

\* shuffled.slice(0, limit - trendingArticles.length)
BackfillCount(limit, trendingArticles) == limit - Len(trendingArticles)

\* lines 171-184: the lists the call can return for the collected articles
TrendingResults(allArticles, limit) ==
    LET trendingArticles == Filter(allArticles, TRUE)
        nonTrending == Filter(allArticles, FALSE)
        filled ==
            IF Len(trendingArticles) < limit
            THEN { trendingArticles
                       \o Slice(shuffled, BackfillCount(limit, trendingArticles))
                   : shuffled \in Shuffle(nonTrending) }
            ELSE { trendingArticles }
    IN  UNION { { Slice(shuffled, limit) : shuffled \in Shuffle(t) } : t \in filled }

\* the call up to its first await
fetchTrendingFromAllSources(limit) ==
    /\ sourceCall.op = "none"
    /\ sourceCall' = [NoCall EXCEPT !.op = "trending",
                                    !.apiPriority = API_PRIORITY,
                                    !.pos = 1,
                                    !.invoked = <<API_PRIORITY[1]>>,
                                    !.limit = limit]
    /\ sourceRet' = SourceRetNone
    /\ UNCHANGED <<now, journalVars, pollVars, imageVars, facadeVars, latestArticlesBySource>>

\* the awaited provider comes back with resp
ResumeTrending(resp) ==
    LET c == sourceCall
        apiSource == c.apiPriority[c.pos]
        answers == Append(c.answers, resp)
        articles == [i \in 1..Len(resp.articles) |->
                        [resp.articles[i] EXCEPT !.apiSource = apiSource]]
        allArticles == IF resp.kind = "ok" THEN c.allArticles \o articles
                       ELSE c.allArticles
        done == [SourceRetNone EXCEPT !.op = "trending",
                                      !.apiPriority = c.apiPriority,
                                      !.invoked = c.invoked,
                                      !.answers = answers,
                                      !.allArticles = allArticles,
                                      !.limit = c.limit,
                                      !.outcome = "returned"]
    IN  /\ c.op = "trending"
        /\ resp \in ProviderResponses(apiSource)
        /\ IF resp.kind = "ok"
           THEN latestArticlesBySource' =
                    [latestArticlesBySource EXCEPT ![apiSource] = articles]
           ELSE UNCHANGED latestArticlesBySource
        /\ IF resp.kind = "throw" /\ ProviderCatch = "rethrow"
           THEN /\ sourceRet' = [done EXCEPT !.outcome = "raised"]
                /\ sourceCall' = NoCall
           ELSE IF c.pos < Len(c.apiPriority) /\ TrendingGoesOn(resp)
           THEN /\ sourceCall' =
                      [c EXCEPT !.pos = c.pos + 1,
                                !.invoked = Append(c.invoked,
                                                   c.apiPriority[c.pos + 1]),
                                !.answers = answers,
                                !.allArticles = allArticles]
                /\ UNCHANGED sourceRet
           ELSE /\ \E result \in TrendingResults(allArticles, c.limit) :
                      sourceRet' = [done EXCEPT !.result = result]
                /\ sourceCall' = NoCall
        /\ UNCHANGED <<now, journalVars, pollVars, imageVars, facadeVars>>

----------------------------------------------------------------------------
(* The facade: its registry and the listener it has on the journal registry *)

\* the lists of journal entries the journal layer publishes
JournalBatches == { TransformAll(p, 1) : p \in { q \in Payloads : Len(q) <= 1 } }

Occurrences(seq, l) == Cardinality({i \in 1..Len(seq) : seq[i] = l})

Delivered(log, l) == \E i \in 1..Len(log) : log[i] = l

\* the listeners whose only registration was removed while the publish with
\* this delivery log went on, and that were not subscribed again by it
DroppedBy(before, log) ==
    { l \in NewsListeners :
        /\ Occurrences(before, l) = 1
        /\ \/ (Behaviour[l] = "unsubscribe" /\ Delivered(log, l))
           \/ (l = Target /\ \E r \in NewsListeners :
                                Behaviour[r] = "unsubscribeOther" /\ Delivered(log, r))
        /\ ~(l = Target /\ \E a \in NewsListeners :
                                Behaviour[a] = "subscribe" /\ Delivered(log, a)) }

subscribeToNewsUpdates(l) ==
    /\ Len(handles) < MaxSubscriptions
    /\ Len(newsUpdateListeners) < MaxListeners
    /\ newsUpdateListeners' = Append(newsUpdateListeners, l)
    /\ handles' = Append(handles, [listener |-> l, calls |-> 0])
    /\ dropped' = dropped \ {l}
    /\ UNCHANGED <<now, journalVars, pollVars, imageVars, sourceVars, readVars,
                   latestArticles,
                   latestMediaStackArticles, published>>

\* the unsubscribe function handles[h] is called
unsubscribeFromNewsUpdates(h) ==
    /\ handles[h].calls < MaxCalls
    /\ newsUpdateListeners' = Unsubscribed(newsUpdateListeners, handles[h].listener)
    /\ handles' = [handles EXCEPT ![h].calls = @ + 1]
    /\ UNCHANGED <<now, journalVars, pollVars, imageVars, sourceVars, readVars,
                   latestArticles,
                   latestMediaStackArticles, dropped, published>>

\* the listener the facade registered on the journal registry is invoked
\* with the new journal entries: it merges them and publishes the result
onJournalArticleUpdate(newJournalArticles) ==
    LET pub == Notify(newsUpdateListeners)
    IN  /\ Len(pub.registry) <= MaxListeners
        /\ latestArticles' = latestMediaStackArticles \o newJournalArticles
        /\ newsUpdateListeners' = pub.registry
        /\ published' = [happened |-> TRUE, payload |-> latestArticles',
                         before |-> newsUpdateListeners,
                         delivered |-> pub.delivered, raised |-> pub.raised,
                         droppedBefore |-> dropped]
        /\ dropped' = (dropped \cup DroppedBy(newsUpdateListeners, pub.delivered))
                      \ (IF \E a \in NewsListeners :
                               Behaviour[a] = "subscribe" /\ Delivered(pub.delivered, a)
                         THEN {Target} ELSE {})
        /\ UNCHANGED <<now, journalVars, pollVars, imageVars, sourceVars,
                       readVars, latestMediaStackArticles, handles>>

----------------------------------------------------------------------------
(* The read operations of the facade *)

\* fetchAllArticles, catch block: latestArticles when it is not empty, the
\* static dataset otherwise
AllCatch == IF Len(latestArticles) > 0 THEN latestArticles ELSE getAllArticles

\* fetchArticlesByCategory, catch block: the static dataset
CategoryCatch(category) == getArticlesByCategory(category)

\* the read operation c returns result; the record of the completed
\* operation says what it returned, whether it came through its catch
\* block, and latestArticles as the catch block found it
ReadReturns(c, result, failed) ==
    /\ readRet' = [op |-> c.op, forceRefresh |-> c.forceRefresh,
                   category |-> c.category, outcome |-> "returned",
                   result |-> result, failed |-> failed,
                   cacheAtCatch |-> IF failed THEN latestArticles ELSE <<>>]
    /\ readCall' = NoRead

\* the read operation c goes on once the fetchDailyJournalEntries call it
\* awaits has settled as recorded in r
AfterDaily(c, r) ==
    IF c.op = "fetchAllArticles"
    THEN IF r.outcome = "raised"
         THEN /\ ReadReturns(c, AllCatch, TRUE)
              /\ UNCHANGED <<latestArticles, latestMediaStackArticles>>
         ELSE \* fetchMediaStackArticles(undefined, 20) is called and awaited
              /\ readCall' = [c EXCEPT !.pc = "mediastack",
                                       !.journalArticles = r.entries]
              /\ UNCHANGED <<readRet, latestArticles, latestMediaStackArticles>>
    ELSE \* fetchArticlesByCategory('journal')
         /\ IF r.outcome = "raised"
            THEN ReadReturns(c, CategoryCatch(c.category), TRUE)
            ELSE ReadReturns(c, r.entries, FALSE)
         /\ UNCHANGED <<latestArticles, latestMediaStackArticles>>

\* the read operation c calls fetchDailyJournalEntries and awaits it: the
\* journal call settles at once, or it issues its upstream request
AwaitDaily(c) ==
    /\ fetchDailyJournalEntriesSync
    /\ IF calls' = calls
       THEN AfterDaily(c, ret')
       ELSE /\ readCall' = [c EXCEPT !.pc = "daily"]
            /\ UNCHANGED <<readRet, latestArticles, latestMediaStackArticles>>

ReadFrame ==
    UNCHANGED <<now, pollVars, sourceVars, imageVars, newsUpdateListeners,
                handles, dropped, published>>

fetchAllArticles(forceRefresh) ==
    LET c == ReadCall("fetchAllArticles", forceRefresh, "none")
    IN  /\ readCall = NoRead
        /\ IF Len(latestArticles) > 0 /\ ~forceRefresh
           THEN /\ ReadReturns(c, latestArticles, FALSE)
                /\ UNCHANGED <<journalVars, latestArticles,
                               latestMediaStackArticles>>
           ELSE AwaitDaily(c)
        /\ ReadFrame

fetchArticlesByCategory(category) ==
    LET c == ReadCall("fetchArticlesByCategory", FALSE, category)
    IN  /\ readCall = NoRead
        /\ IF category = "journal"
           THEN AwaitDaily(c)
           ELSE \* fetchMediaStackArticles(category, 20) is called and awaited
                /\ readCall' = [c EXCEPT !.pc = "mediastack"]
                /\ UNCHANGED <<journalVars, readRet, latestArticles,
                               latestMediaStackArticles>>
        /\ ReadFrame

\* the upstream request of the fetchDailyJournalEntries call s, which the
\* read operation awaits, comes back with resp
ReadResumeDaily(s, resp) ==
    /\ readCall.pc = "daily"
    /\ fetchDailyJournalEntriesResume(s, resp)
    /\ AfterDaily(readCall, ret')
    /\ ReadFrame

\* variant: the provider list is not cached
CacheMediaStack_skipped(mediaStackArticles) == latestMediaStackArticles

\* fetchAllArticles: latestMediaStackArticles = mediaStackArticles
CacheMediaStack(mediaStackArticles) == mediaStackArticles

\* the fetchMediaStackArticles call the read operation awaits settles
ReadResumeMediaStack(resp) ==
    /\ readCall.pc = "mediastack"
    /\ IF readCall.op = "fetchAllArticles"
       THEN IF resp.kind = "ok"
            THEN /\ latestMediaStackArticles' = CacheMediaStack(resp.articles)
                 /\ latestArticles' = resp.articles \o readCall.journalArticles
                 /\ ReadReturns(readCall, latestArticles', FALSE)
            ELSE /\ ReadReturns(readCall, AllCatch, TRUE)
                 /\ UNCHANGED <<latestArticles, latestMediaStackArticles>>
       ELSE /\ IF resp.kind = "ok"
               THEN ReadReturns(readCall, resp.articles, FALSE)
               ELSE ReadReturns(readCall, CategoryCatch(readCall.category), TRUE)
            /\ UNCHANGED <<latestArticles, latestMediaStackArticles>>
    /\ UNCHANGED journalVars
    /\ ReadFrame

----------------------------------------------------------------------------
(* Specifications *)

\* the journal layer and its direct callers, no subscriber registered
Next ==
    \/ Tick
    \/ CorruptStorage
    \/ fetchDailyJournalEntries
    \/ \E s \in Slots, resp \in Responses : ResumeDaily(s, resp)
    \/ checkForNewArticles
    \/ \E s \in Slots, resp \in Responses : ResumeCheck(s, resp)

\* the change detector and the subscribers of its article-update registry
NextNotify ==
    \/ Tick
    \/ CorruptStorage
    \/ \E l \in Listeners : subscribeToArticleUpdates(l)
    \/ \E l \in Listeners : unsubscribeFromArticleUpdates(l)
    \/ checkForNewArticles
    \/ \E s \in Slots, resp \in Responses : ResumeCheck(s, resp)

\* the poller, its status subscribers and the checks it starts
NextPoll ==
    \/ Tick
    \/ CorruptStorage
    \/ \E l \in Listeners : subscribeToCheckingStatus(l)
    \/ \E l \in Listeners : unsubscribeFromCheckingStatus(l)
    \/ \E i \in Intervals : startArticlePolling(i)
    \/ stopArticlePolling
    \/ \E t \in timers : TimerFire(t)
    \/ \E s \in Slots : PollFinish(s)
    \/ \E s \in Slots, resp \in Responses : ResumeCheck(s, resp)

\* the multi-source aggregator and its callers
NextSources ==
    \/ \E apiPriority \in PriorityLists : fetchArticlesFromAllSources(apiPriority)
    \/ \E src \in NewsApiSource : \E resp \in ProviderResponses(src) : ResumeFetch(resp)
    \/ \E apiPriority \in PriorityLists : searchArticlesFromAllSources(apiPriority)
    \/ \E src \in NewsApiSource : \E resp \in ProviderResponses(src) : ResumeSearch(resp)
    \/ \E limit \in 0..MaxLimit : fetchTrendingFromAllSources(limit)
    \/ \E src \in NewsApiSource : \E resp \in ProviderResponses(src) : ResumeTrending(resp)

\* the facade registry, its subscribers and the journal updates it republishes
NextNews ==
    \/ \E l \in NewsListeners : subscribeToNewsUpdates(l)
    \/ \E h \in 1..Len(handles) : unsubscribeFromNewsUpdates(h)
    \/ \E newJournalArticles \in JournalBatches :
          onJournalArticleUpdate(newJournalArticles)

\* findRelevantImage on every quote and tag list of the bounded sets
InitImage ==
    /\ InitModules
    /\ \E quoteContent \in Texts(MaxWords), tags \in Texts(MaxTags) :
          imageCall = ImageCall(quoteContent, tags)

NextImage == findRelevantImage

\* the read operations of the facade over the journal layer and the provider
NextReads ==
    \/ CorruptStorage
    \/ \E forceRefresh \in BOOLEAN : fetchAllArticles(forceRefresh)
    \/ \E category \in Categories : fetchArticlesByCategory(category)
    \/ \E s \in Slots, resp \in Responses : ReadResumeDaily(s, resp)
    \/ \E resp \in ProviderResponses("mediastack") : ReadResumeMediaStack(resp)

\* fetchAllArticles and the journal updates the facade merges, interleaved
NextFacade ==
    \/ CorruptStorage
    \/ \E forceRefresh \in BOOLEAN : fetchAllArticles(forceRefresh)
    \/ \E s \in Slots, resp \in Responses : ReadResumeDaily(s, resp)
    \/ \E resp \in ProviderResponses("mediastack") : ReadResumeMediaStack(resp)
    \/ \E newJournalArticles \in JournalBatches :
          onJournalArticleUpdate(newJournalArticles)

Spec == Init /\ [][Next]_vars
SpecNotify == Init /\ [][NextNotify]_vars
SpecPoll == Init /\ [][NextPoll]_vars
SpecSources == Init /\ [][NextSources]_vars
SpecNews == Init /\ [][NextNews]_vars
SpecImage == InitImage /\ [][NextImage]_vars
SpecReads == Init /\ [][NextReads]_vars
SpecFacade == Init /\ [][NextFacade]_vars

----------------------------------------------------------------------------
(* Properties of the poller *)

\* a step that ends a check run started by checkAndNotify: the awaited
\* check leaves its slot, or a timer-started run whose check settled before
\* its first await publishes both of its status notifications
PollRunEnds ==
    \/ \E s \in Slots :
          calls[s].op = "check" /\ calls[s].poll /\ calls'[s].op = "none"
    \/ Len(statusLog') = Len(statusLog) + 2

\* a step that invokes checkAndNotify and is not a stuttering step
PollInvoked == pollInfo' # pollInfo

\* C1: at most one check run started by checkAndNotify is in flight; an
\* invocation of checkAndNotify (timer firing or the immediate check of
\* startArticlePolling) made while a run is in flight is skipped: it starts
\* no check, issues no request, publishes no status and leaves no call behind
SingleFlight ==
    /\ [](PollsInFlight <= 1)
    /\ [](pollInfo.inFlightBefore > 0 => pollInfo.outcome = "skipped")
    /\ [][(PollInvoked /\ PollsInFlight > 0) =>
             /\ pollInfo'.outcome = "skipped"
             /\ UNCHANGED <<journalVars, isCurrentlyChecking,
                            checkingStatusListeners, statusLog>>]_vars

\* a timer firing was skipped while the run it overlaps is still in flight
SingleFlightWitness ==
    /\ pollInfo.outcome = "skipped"
    /\ pollInfo.src = "timer"
    /\ pollInfo.inFlightBefore = 1
    /\ PollsInFlight = 1
    /\ isCurrentlyChecking

\* C2: whenever a check run started by checkAndNotify ends (new content,
\* none, debounced or failed), isCurrentlyChecking is false afterwards, and
\* an invocation made when no run is in flight and no earlier invocation was
\* left half-way by a raising status listener is not skipped
GuardRelease ==
    /\ [][PollRunEnds => ~isCurrentlyChecking']_vars
    /\ [][(PollInvoked /\ PollsInFlight = 0 /\ ~pollInfo.stuck) =>
             pollInfo'.outcome # "skipped"]_vars

\* a run whose request failed has ended and the next timer firing has
\* started a new run
GuardReleaseWitness ==
    /\ ret.op = "check" /\ ret.poll
    /\ ret.requested /\ ret.resp.kind = "neterr"
    /\ statusLog = <<TRUE, FALSE, TRUE>>
    /\ pollInfo.outcome = "started" /\ pollInfo.src = "timer"
    /\ ~pollInfo.flagBefore

----------------------------------------------------------------------------
(* Properties of fetchDailyJournalEntries *)

\* the last completed call is a fetchDailyJournalEntries call that found,
\* when it started, a record dated that day with entries
DailyHit ==
    /\ ret.op = "daily"
    /\ ret.startStorage.kind = "json"
    /\ ret.startStorage.date = ret.startNow \div DayMs
    /\ Len(ret.startStorage.entries) > 0

\* C3: a call that finds a record dated today with a non-empty entries list
\* returns exactly those entries, issues no request and leaves the record as
\* it is
SameDayCacheHit ==
    DailyHit =>
        /\ ret.outcome = "returned"
        /\ ret.entries = ret.startStorage.entries
        /\ ~ret.requested
        /\ ~ret.wrote
        /\ ret.endStorage = ret.startStorage
        /\ ret.endNow = ret.startNow

\* a call was served from the record an earlier call of the same day wrote
SameDayCacheHitWitness ==
    /\ DailyHit
    /\ ~ret.requested
    /\ ret.entries = ret.startStorage.entries
    /\ requests = 1

\* the entries the catch block is to serve from the record that exists when
\* the call fails
ExistingEntries(item) == IF item.kind = "json" THEN item.entries ELSE <<>>

\* C4: fetchDailyJournalEntries never raises; when the request fails, the
\* status is not OK, the payload or the persisted record is unreadable, it
\* returns the entries of the existing record whatever its date, or the
\* empty list
DailyNeverRaises ==
    ret.op = "daily" =>
        /\ ret.outcome = "returned"
        /\ (ret.startStorage.kind = "garbage"
            \/ (ret.requested /\ ret.resp.kind # "ok"))
           => ret.entries = ExistingEntries(ret.endStorage)

\* the last completed call is a fetchDailyJournalEntries call whose request
\* came back with a list of quotes
DailyFetched ==
    /\ ret.op = "daily"
    /\ ret.requested
    /\ ret.resp.kind = "ok"

\* the returned entries are the quotes of the payload, in order
EntriesOfPayload ==
    /\ Len(ret.entries) = Len(ret.resp.quotes)
    /\ \A i \in 1..Len(ret.entries) :
          /\ ret.entries[i].summary = ret.resp.quotes[i].content
          /\ ret.entries[i].author = ret.resp.quotes[i].author

\* C5, as stated: after a miss and a successful request the record holds the
\* returned list and the calendar date at the moment of the write
MissWritesDateOfWrite ==
    DailyFetched =>
        /\ ret.wrote
        /\ EntriesOfPayload
        /\ ret.endStorage =
              [kind |-> "json", date |-> ret.endNow \div DayMs,
               entries |-> ret.entries]

\* C5, amended: after a miss and a successful request the record holds the
\* returned list and the calendar date at the moment the call started
MissWritesDateOfCall ==
    DailyFetched =>
        /\ ~DailyHit
        /\ ret.wrote
        /\ EntriesOfPayload
        /\ ret.endStorage =
              [kind |-> "json", date |-> ret.startNow \div DayMs,
               entries |-> ret.entries]

\* a call wrote the record after the calendar day changed while its request
\* was in flight
MissWritesDateOfCallWitness ==
    /\ DailyFetched
    /\ Len(ret.entries) > 0
    /\ ret.endNow \div DayMs # ret.startNow \div DayMs
    /\ storage = ret.endStorage

----------------------------------------------------------------------------
(* Properties of checkForNewArticles *)

\* the last completed call is a checkForNewArticles call
CheckDone == ret.op = "check"

\* C6: a call made fewer than 30 seconds after lastFetchTimestamp returns
\* false, issues no request, writes nothing, publishes nothing and leaves the
\* timestamp as it is; a call made 30 seconds or more after it (also the
\* first one, lastFetchTimestamp = 0) sets the timestamp to its own time
Debounce ==
    /\ (CheckDone /\ ret.startNow - ret.startLast < DebounceMs) =>
          /\ ret.outcome = "returned" /\ ~ret.flag
          /\ ~ret.requested
          /\ ~ret.wrote /\ ret.endStorage = ret.startStorage
          /\ ~ret.published
          /\ ret.endLast = ret.startLast
          /\ ret.stamp = 0
    /\ (CheckDone /\ ret.startNow - ret.startLast >= DebounceMs) =>
          ret.stamp = ret.startNow
    /\ \A s \in Slots :
          (calls[s].op = "check" /\ calls[s].pc = "fetch") =>
              /\ calls[s].startNow - calls[s].startLast >= DebounceMs
              /\ calls[s].stamp = calls[s].startNow
              /\ lastFetchTimestamp >= calls[s].startNow

\* a call made one tick after a call that set the timestamp was debounced
DebounceWitness ==
    /\ CheckDone
    /\ ret.startLast > 0
    /\ ret.startNow - ret.startLast = TickMs
    /\ ~ret.flag /\ ~ret.requested
    /\ lastFetchTimestamp = ret.startLast

\* cached entry c has a freshly fetched entry with its summary and author
HasFreshCounterpart(c) ==
    \E f \in 1..Len(ret.entries) :
        /\ ret.entries[f].summary = ret.cachedEntries[c].summary
        /\ ret.entries[f].author = ret.cachedEntries[c].author

\* fresh entry f has a cached entry with its summary and author
HasCachedCounterpart(f) ==
    \E c \in 1..Len(ret.cachedEntries) :
        /\ ret.cachedEntries[c].summary = ret.entries[f].summary
        /\ ret.cachedEntries[c].author = ret.entries[f].author

\* the last completed call is a check that compared a fetched list with a
\* non-empty cached list
CheckCompared ==
    /\ CheckDone
    /\ ret.requested /\ ret.resp.kind = "ok"
    /\ Len(ret.cachedEntries) > 0

\* C7: with a non-empty cache, no new content is declared only if every
\* cached entry has a fresh counterpart; a cached entry without one makes
\* the call overwrite the cache and publish
ChangeHeuristic ==
    CheckCompared =>
        /\ (~ret.wrote /\ ~ret.published) =>
              \A c \in 1..Len(ret.cachedEntries) : HasFreshCounterpart(c)
        /\ (\E c \in 1..Len(ret.cachedEntries) : ~HasFreshCounterpart(c)) =>
              (ret.wrote /\ ret.published)

\* C8: with a non-empty cache and a fetched list whose every entry has a
\* cached counterpart (the empty list included), the call returns false,
\* leaves the record as it is and publishes nothing
NoChangeNoWrite ==
    (CheckCompared /\ \A f \in 1..Len(ret.entries) : HasCachedCounterpart(f)) =>
        /\ ret.outcome = "returned" /\ ~ret.flag
        /\ ~ret.wrote
        /\ ~ret.published

\* number of occurrences of l in seq

\* C9: with an absent or empty cache and a successful fetch the call returns
\* true, writes {date: today, entries: fresh entries} and delivers exactly
\* one event to each registered listener
EmptyCachePublishes ==
    (CheckDone /\ ret.requested /\ ret.resp.kind = "ok"
        /\ Len(ret.cachedEntries) = 0) =>
        /\ ret.outcome = "returned" /\ ret.flag
        /\ ret.wrote
        /\ ret.endStorage =
              [kind |-> "json", date |-> ret.endNow \div DayMs,
               entries |-> ret.entries]
        /\ ret.published
        /\ \A l \in Listeners :
              Occurrences(ret.delivered, l) = Occurrences(ret.regAtPublish, l)

\* the upstream request of the last completed check failed, or the check
\* could not read the persisted record
CheckFailed ==
    /\ CheckDone
    /\ \/ (ret.requested /\ ret.resp.kind \in {"neterr", "notok", "unparsable"})
       \/ (ret.startNow - ret.startLast >= DebounceMs
           /\ ret.startStorage.kind = "garbage")

\* C10: checkForNewArticles never raises; when the request fails, the status
\* is not OK, or the payload or the persisted record cannot be read, it
\* returns false, leaves the record as it is and publishes nothing
CheckNeverRaises ==
    /\ CheckDone => ret.outcome = "returned"
    /\ CheckFailed =>
          /\ ~ret.flag
          /\ ~ret.wrote /\ ~ret.published
          /\ ret.delivered = <<>>
    /\ (CheckFailed /\ ~ret.requested) => ret.endStorage = ret.startStorage

\* a listener raised inside a check, and a later check found the persisted
\* record unreadable; both returned false
CheckNeverRaisesWitness ==
    /\ CheckFailed
    /\ ~ret.requested
    /\ ret.startStorage.kind = "garbage"
    /\ ret.outcome = "returned" /\ ~ret.flag
    /\ requests = 1

----------------------------------------------------------------------------
(* Properties of the multi-source aggregator *)

\* the provider's answer gives the loop nothing to return
Fruitless(resp) == resp.kind = "throw" \/ Len(resp.articles) = 0

FallbackDone == sourceRet.op \in {"fetch", "search"}

\* C11: fetchArticlesFromAllSources and searchArticlesFromAllSources invoke
\* the providers in the order of the priority list, each one only after all
\* earlier ones have thrown or returned an empty list; the call returns
\* exactly the list of the first provider that returned a non-empty one, and
\* invokes no provider after it
OrderedFallback ==
    /\ sourceCall.op \in {"fetch", "search"} =>
          /\ sourceCall.invoked = SubSeq(sourceCall.apiPriority, 1, sourceCall.pos)
          /\ Len(sourceCall.answers) = sourceCall.pos - 1
          /\ \A i \in 1..Len(sourceCall.answers) : Fruitless(sourceCall.answers[i])
    /\ FallbackDone =>
          LET n == Len(sourceRet.answers)
          IN  /\ sourceRet.invoked = SubSeq(sourceRet.apiPriority, 1, n)
              /\ \A i \in 1..(n - 1) : Fruitless(sourceRet.answers[i])
              /\ (n > 0 /\ ~Fruitless(sourceRet.answers[n])) =>
                     sourceRet.result = sourceRet.answers[n].articles
              /\ sourceRet.result # <<>> =>
                     (n > 0 /\ sourceRet.result = sourceRet.answers[n].articles)

\* the first provider threw, the second returned an empty list, the third
\* returned articles, which are the result
OrderedFallbackWitness ==
    /\ sourceRet.op = "fetch"
    /\ sourceRet.invoked = API_PRIORITY
    /\ Len(sourceRet.answers) = 3
    /\ sourceRet.answers[1].kind = "throw"
    /\ sourceRet.answers[2].kind = "ok" /\ sourceRet.answers[2].articles = <<>>
    /\ sourceRet.answers[3].articles # <<>>
    /\ sourceRet.result = sourceRet.answers[3].articles

\* C12: fetchArticlesFromAllSources and searchArticlesFromAllSources never
\* raise, whatever the providers do and also for an empty priority list; the
\* result is empty exactly when every provider of the priority list was
\* invoked and threw or returned an empty list
FallbackNeverRaises ==
    FallbackDone =>
        /\ sourceRet.outcome = "returned"
        /\ (sourceRet.result = <<>>) <=>
               /\ Len(sourceRet.answers) = Len(sourceRet.apiPriority)
               /\ \A i \in 1..Len(sourceRet.answers) : Fruitless(sourceRet.answers[i])

\* a search over the default priority list in which every provider threw
FallbackNeverRaisesWitness ==
    /\ sourceRet.op = "search"
    /\ sourceRet.apiPriority = API_PRIORITY
    /\ Len(sourceRet.answers) = 3
    /\ \A i \in 1..3 : sourceRet.answers[i].kind = "throw"
    /\ sourceRet.outcome = "returned"
    /\ sourceRet.result = <<>>

\* a step in which a fetchArticlesFromAllSources call returns a provider's list
FetchWon ==
    /\ sourceCall.op = "fetch"
    /\ sourceCall'.op = "none"
    /\ sourceRet'.result # <<>>

\* a step of a fetchArticlesFromAllSources or searchArticlesFromAllSources call
FallbackStep ==
    \/ sourceCall.op \in {"fetch", "search"}
    \/ sourceCall'.op \in {"fetch", "search"}
    \/ (sourceRet' # sourceRet /\ sourceRet'.op \in {"fetch", "search"})

\* C13: a fetchArticlesFromAllSources call that returns a provider's list
\* stores that list under that provider's key and changes no other key; every
\* other step of the call (the call starts, a provider throws or returns an
\* empty list, all providers have failed) and every step of a
\* searchArticlesFromAllSources call leaves the whole store unchanged
StoreFrame ==
    [][ /\ FetchWon =>
              latestArticlesBySource' =
                  [latestArticlesBySource EXCEPT
                      ![sourceRet'.invoked[Len(sourceRet'.invoked)]] =
                          sourceRet'.result]
        /\ (FallbackStep /\ ~FetchWon) => UNCHANGED latestArticlesBySource
      ]_vars

\* the first provider threw in this call and keeps the list stored for it
\* before, the third provider won and its list is stored under its key
StoreFrameWitness ==
    /\ sourceRet.op = "fetch"
    /\ sourceRet.invoked = API_PRIORITY
    /\ sourceRet.answers[1].kind = "throw"
    /\ sourceRet.result # <<>>
    /\ latestArticlesBySource["guardian"] = sourceRet.result
    /\ latestArticlesBySource["mediastack"] # <<>>
    /\ latestArticlesBySource["newsapi"] = <<>>

RECURSIVE Collected(_)
\* the identities of the articles the answers contain, in order; a provider
\* that threw has none
Collected(answers) ==
    IF Len(answers) = 0 THEN <<>>
    ELSE LET last == answers[Len(answers)]
         IN  Collected(SubSeq(answers, 1, Len(answers) - 1))
             \o [i \in 1..Len(last.articles) |-> last.articles[i].id]

\* C14: fetchTrendingFromAllSources invokes every provider of the default
\* priority list once, in priority order, whatever the earlier providers did;
\* a provider that throws contributes no article and the later ones are still
\* invoked; the call never raises
TrendingAsksAll ==
    /\ sourceCall.op = "trending" =>
          /\ sourceCall.invoked = SubSeq(API_PRIORITY, 1, sourceCall.pos)
          /\ Len(sourceCall.answers) = sourceCall.pos - 1
    /\ sourceRet.op = "trending" =>
          /\ sourceRet.outcome = "returned"
          /\ sourceRet.invoked = API_PRIORITY
          /\ Len(sourceRet.answers) = Len(API_PRIORITY)
          /\ [i \in 1..Len(sourceRet.allArticles) |-> sourceRet.allArticles[i].id]
                 = Collected(sourceRet.answers)

\* the first provider returned articles, the second threw, the third was
\* still invoked and returned articles
TrendingAsksAllWitness ==
    /\ sourceRet.op = "trending"
    /\ Len(sourceRet.answers) = 3
    /\ sourceRet.answers[1].articles # <<>>
    /\ sourceRet.answers[2].kind = "throw"
    /\ sourceRet.answers[3].articles # <<>>
    /\ sourceRet.outcome = "returned"

Min(a, b) == IF a < b THEN a ELSE b

\* C15: with N articles collected of which T are trending,
\* fetchTrendingFromAllSources(limit) returns min(limit, N) articles; only
\* trending ones if T >= limit; every trending one, plus non-trending ones,
\* if T < limit; each of them a collected article, none more often than it
\* was collected
TrendingComposition ==
    (sourceRet.op = "trending" /\ sourceRet.outcome = "returned") =>
        LET all == sourceRet.allArticles
            result == sourceRet.result
            limit == sourceRet.limit
            N == Len(all)
            T == Len(Filter(all, TRUE))
        IN  /\ Len(result) = Min(limit, N)
            /\ T >= limit => \A i \in 1..Len(result) : result[i].trending
            /\ T < limit =>
                  \A i \in 1..N : all[i].trending =>
                      \E j \in 1..Len(result) : result[j] = all[i]
            /\ \A j \in 1..Len(result) :
                  Occurrences(result, result[j]) <= Occurrences(all, result[j])

\* one trending and two non-trending articles were collected and limit is 2:
\* the result is the trending article and one of the other two
TrendingCompositionWitness ==
    /\ sourceRet.op = "trending"
    /\ sourceRet.limit = 2
    /\ Len(sourceRet.allArticles) = 3
    /\ Len(Filter(sourceRet.allArticles, TRUE)) = 1
    /\ Len(sourceRet.result) = 2
    /\ \E j \in 1..2 : ~sourceRet.result[j].trending

----------------------------------------------------------------------------
(* Properties of the registries *)

\* a step that calls the unsubscribe function handles[h]
UnsubscribeCalled(h) ==
    /\ Len(handles') = Len(handles)
    /\ handles'[h].calls = handles[h].calls + 1

\* C16: the first call of an unsubscribe function removes one registration
\* of its listener and nothing else; every further call of the same function
\* leaves the registry as it is, also when its listener is registered more
\* than once
UnsubscribeIdempotent ==
    [][ \A h \in 1..Len(handles) :
          UnsubscribeCalled(h) =>
              LET l == handles[h].listener
              IN  IF handles[h].calls = 0
                  THEN /\ Occurrences(newsUpdateListeners', l)
                              = IF Occurrences(newsUpdateListeners, l) = 0 THEN 0
                                ELSE Occurrences(newsUpdateListeners, l) - 1
                       /\ \A m \in NewsListeners \ {l} :
                              Occurrences(newsUpdateListeners', m)
                                  = Occurrences(newsUpdateListeners, m)
                  ELSE newsUpdateListeners' = newsUpdateListeners
      ]_vars

\* a publish during which no callback changed the registry
RegistryLeftAlone ==
    \A i \in 1..Len(published.delivered) :
        Behaviour[published.delivered[i]] \in {"consume", "throw"}

\* C17: a publish during which no listener changes the registry invokes
\* every listener registered at that moment once, in subscription order
PublishOrder ==
    (published.happened /\ RegistryLeftAlone) =>
        published.delivered = published.before

\* C18: a publish during which listeners subscribe or unsubscribe still
\* invokes every listener that was registered when it started once, and no
\* listener added during it
PublishSnapshot ==
    (published.happened /\ ~published.raised) =>
        published.delivered = published.before

\* C19: a listener whose registration is removed while a publish is being
\* delivered, by itself or by another listener, raises nothing in that
\* publish (a publish raises only where a listener throws) and, unless it is
\* subscribed again, is invoked by no later publish
UnsubscribedStaysOut ==
    published.happened =>
        /\ \A i \in 1..Len(published.delivered) :
              published.delivered[i] \notin published.droppedBefore
        /\ published.raised =>
              Behaviour[published.delivered[Len(published.delivered)]] = "throw"

\* a listener unsubscribed itself during one publish; a later publish was
\* delivered to the listener that is still registered, and not to it
UnsubscribedStaysOutWitness ==
    /\ published.happened
    /\ "quitter" \in published.droppedBefore
    /\ published.before = <<"plain">>
    /\ published.delivered = <<"plain">>
    /\ ~published.raised

----------------------------------------------------------------------------
(* Properties of the polling timer *)

\* C20: after any sequence of startArticlePolling and stopArticlePolling
\* calls at most one interval timer is active; after startArticlePolling(i)
\* it is the timer that call set up, with interval i, until the next
\* startArticlePolling or stopArticlePolling; after stopArticlePolling none
\* is active; no other step changes the timers
NoDuplicateTimers ==
    /\ [](Cardinality(timers) <= 1)
    /\ []((pollInfo.src = "start" /\ pollingInterval # 0) =>
              timers = {[id |-> pollingInterval, interval |-> pollInfo.intervalMs]})
    /\ [](pollingInterval = 0 => timers = {})
    /\ [][(nextTimer' = nextTimer /\ pollingInterval' = pollingInterval) =>
              UNCHANGED timers]_vars

\* a second startArticlePolling, with 500 ms, replaced the timer of the first
NoDuplicateTimersWitness ==
    /\ nextTimer = 3
    /\ pollingInterval = 2
    /\ pollInfo.src = "start"
    /\ pollInfo.intervalMs = 500
    /\ timers = {[id |-> 2, interval |-> 500]}

----------------------------------------------------------------------------
(* Properties of startArticlePolling and stopArticlePolling *)

\* a step that is a call of startArticlePolling
StartCalled == nextTimer' # nextTimer

\* the step invokes checkForNewArticles on behalf of checkAndNotify
CheckInvokedByPoller ==
    \E s \in Slots :
        calls[s].op = "none" /\ calls'[s].op = "check" /\ calls'[s].poll

\* the step takes the guard and publishes status true; when that
\* notification returns to checkAndNotify, the step invokes
\* checkForNewArticles
StartsCheckRun ==
    /\ isCurrentlyChecking'
    /\ statusLog' = Append(statusLog, TRUE)
    /\ pollInfo'.outcome \in {"started", "aborted"}
    /\ pollInfo'.outcome = "started" => CheckInvokedByPoller

StatusAlternates ==
    /\ \A i \in 1..Len(statusLog) : statusLog[i] = (i % 2 = 1)
    /\ PollsInFlight = 0 => Len(statusLog) % 2 = 0

\* a step that is a call of stopArticlePolling while polling is on: the only
\* step that leaves no timer behind
StopCalled == timers # {} /\ timers' = {}

\* C23: after stopArticlePolling the handle is reset and no timer is
\* active; until the next startArticlePolling no timer exists, so no
\* invocation of checkAndNotify comes from a timer; stopArticlePolling
\* changes nothing but the timer and its handle, and called when polling is
\* stopped or was never started it changes no state at all (and it is always
\* enabled: it does not raise)
StopIdempotent ==
    /\ [][StopCalled => pollingInterval' = 0]_vars
    /\ [][(pollingInterval = 0 /\ ~StartCalled) =>
             (timers' = {} /\ pollingInterval' = 0 /\ UNCHANGED pollInfo)]_vars
    /\ [][StopCalled =>
             UNCHANGED <<newsVars, now, journalVars, nextTimer,
                         isCurrentlyChecking, checkingStatusListeners,
                         statusLog, pollInfo>>]_vars
    /\ [][(pollingInterval = 0 /\ stopArticlePolling) => UNCHANGED vars]_vars
    /\ [](ENABLED stopArticlePolling)

\* polling was started and stopped, and time has passed since without a
\* timer firing
StopIdempotentWitness ==
    /\ nextTimer = 2
    /\ pollingInterval = 0
    /\ timers = {}
    /\ pollInfo.src = "start"
    /\ PollsInFlight = 0
    /\ now > StartMs

\* the request of a check run started by checkAndNotify comes back
PollRunResumes ==
    \E s \in Slots :
        /\ calls[s].op = "check" /\ calls[s].poll /\ calls[s].pc = "fetch"
        /\ calls'[s].op = "none"

\* C24: stopArticlePolling leaves a check that is in flight as it is (its
\* call record, the guard, the cache and the published statuses); a run
\* that ends while polling is stopped still publishes status false and
\* releases the guard, and it has overwritten the cache and published an
\* article update exactly when a run of a started poller would have
StopKeepsCheck ==
    /\ [][StopCalled =>
             UNCHANGED <<calls, requests, storage, isCurrentlyChecking,
                         statusLog>>]_vars
    /\ [][(pollingInterval = 0 /\ PollRunEnds) =>
             /\ ~isCurrentlyChecking'
             /\ statusLog' = Append(statusLog, FALSE)]_vars
    /\ [][(pollingInterval = 0 /\ PollRunResumes) =>
             /\ ret'.op = "check" /\ ret'.poll
             /\ ret'.wrote = (storage' # storage \/ ret'.published)
             /\ ret'.wrote =>
                    (storage'.kind = "json" /\ storage'.date = Today(now))
             /\ (ret'.resp.kind = "ok" /\ storage.kind = "none") =>
                    (ret'.wrote /\ ret'.published)]_vars

\* stopArticlePolling was called while the request of a check run was
\* pending: no timer is left, and the run is still in flight with the guard
\* taken and its status false not yet published
StopKeepsCheckWitness ==
    /\ pollingInterval = 0 /\ timers = {}
    /\ nextTimer = 2
    /\ pollInfo.outcome = "started"
    /\ \E s \in Slots :
          calls[s].op = "check" /\ calls[s].poll /\ calls[s].pc = "fetch"
    /\ isCurrentlyChecking
    /\ statusLog = <<TRUE>>

\* the upstream request of a check run started by checkAndNotify is pending
PollHung ==
    \E s \in Slots :
        calls[s].op = "check" /\ calls[s].poll /\ calls[s].pc = "fetch"

\* C30: as long as the upstream request of a check run started by
\* checkAndNotify has not come back, isCurrentlyChecking is true, no status
\* is published, no request is issued, no other run starts, and every
\* invocation of checkAndNotify, from a timer or from startArticlePolling,
\* also after stopArticlePolling, is skipped
HungStalls ==
    /\ [](PollHung => (isCurrentlyChecking /\ PollsInFlight = 1))
    /\ [][(PollHung /\ ~PollRunResumes) =>
             /\ PollHung'
             /\ UNCHANGED <<calls, requests, isCurrentlyChecking, statusLog>>
             /\ PollInvoked => pollInfo'.outcome = "skipped"]_vars

\* the request of the first run is pending; startArticlePolling was called
\* again, its immediate check was skipped, and so was a firing of its timer
HungStallsWitness ==
    /\ PollHung
    /\ pollInfo.src = "timer"
    /\ pollInfo.outcome = "skipped"
    /\ pollInfo.intervalMs = 500
    /\ timers = {[id |-> 2, interval |-> 500]}
    /\ nextTimer = 3
    /\ statusLog = <<TRUE>>
    /\ requests = 1

----------------------------------------------------------------------------
(* Properties of the facade *)

\* C25: for every journal article-update event the facade stores the merged
\* list (provider articles followed by the new journal entries) and every
\* facade subscriber registered at that moment receives exactly one event
\* carrying it
FacadeRepublish ==
    published.happened =>
        /\ published.payload = latestArticles
        /\ \A l \in NewsListeners :
              Occurrences(published.delivered, l) =
                  Occurrences(published.before, l)

----------------------------------------------------------------------------
(* Properties of the cache record under overlapping calls *)

\* the entries all come from the payload of one upstream request
FromOneFetch(entries) ==
    \A i, j \in 1..Len(entries) : entries[i].id[1] = entries[j].id[1]

\* C27: the cache record is replaced as a whole and the last writer wins:
\* the item is absent, a text put there from outside, or one record whose
\* entries come from one fetch; every change of the item by the program is
\* the write of the call that completes in that step and leaves exactly
\* that call's entries, whatever calls overlap
WholeRecordWrite ==
    /\ [](storage.kind = "json" => FromOneFetch(storage.entries))
    /\ [][storage' # storage =>
             \/ storage' = Garbage
             \/ /\ ret'.wrote
                /\ ret'.requested
                /\ storage'.kind = "json"
                /\ storage'.entries = ret'.entries
                /\ storage' = ret'.endStorage
                /\ \E s \in Slots :
                      /\ calls[s].pc = "fetch" /\ calls'[s] = Idle
                      /\ storage'.entries =
                             TransformAll(ret'.resp.quotes, calls[s].req)]_vars

\* two calls overlap: a checkForNewArticles call has written the record
\* while the request of a fetchDailyJournalEntries call, which found no
\* record when it started, is still pending; the record holds the entries
\* of the check's request only
WholeRecordWriteWitness ==
    /\ ret.op = "check" /\ ret.wrote
    /\ storage = ret.endStorage
    /\ Len(storage.entries) > 0
    /\ \E s \in Slots :
          /\ calls[s].op = "daily" /\ calls[s].pc = "fetch"
          /\ calls[s].startStorage = NoItem
          /\ storage.entries[1].id[1] # calls[s].req

\* C28: when the first upstream request of a day has succeeded with a
\* non-empty result, the fetchDailyJournalEntries calls of that day issue no
\* other request, also those started before the first one wrote the cache
OncePerDay ==
    ( /\ ret.op = "daily" /\ ret.requested
      /\ ret.resp.kind = "ok" /\ Len(ret.entries) > 0
      /\ ret.entries[1].id[1] = 1 ) =>
        \A s \in Slots :
            ~( /\ calls[s].op = "daily" /\ calls[s].pc = "fetch"
               /\ calls[s].currentDate = Today(ret.startNow) )

----------------------------------------------------------------------------
(* Properties of findRelevantImage *)

ThemeIndex == 1..Len(THEMED_JOURNAL_IMAGES)

\* the number of keywords of each theme found in the lowercased text and
\* tags of the call
Matched ==
    [t \in ThemeIndex |->
        MatchCount(THEMED_JOURNAL_IMAGES[t],
                   CombinedText(imageCall.quoteContent, imageCall.tags))]

\* with m matched keywords per theme, the score of theme t is at least that
\* of theme u
ScoreAtLeast(m, t, u) ==
    m[t] * Len(THEMED_JOURNAL_IMAGES[u].keywords)
        >= m[u] * Len(THEMED_JOURNAL_IMAGES[t].keywords)

\* C29: the result of findRelevantImage is the image and description of a
\* theme of the table; when some theme has a score above 0 it is that of the
\* theme with the maximal score, the first in table order among those
\* tied for it
ThemeSelection ==
    imageCall.called =>
        LET m == Matched
        IN  /\ \E t \in ThemeIndex :
                  imageCall.result = ImageOf(THEMED_JOURNAL_IMAGES[t])
            /\ (\E t \in ThemeIndex : m[t] > 0) =>
                  \E best \in ThemeIndex :
                      /\ \A u \in ThemeIndex : ScoreAtLeast(m, best, u)
                      /\ \A u \in 1..(best - 1) : ~ScoreAtLeast(m, u, best)
                      /\ imageCall.result = ImageOf(THEMED_JOURNAL_IMAGES[best])

\* the quote "Calm ... overcome" matches one keyword each of mindfulness,
\* courage and resilience, which have seven keywords each: the call has
\* returned the image of mindfulness, the first of the three in the table
ThemeSelectionWitness ==
    /\ imageCall.called
    /\ imageCall.quoteContent = <<"overcome", "Calm">>
    /\ imageCall.tags = <<"zebra">>
    /\ Matched[1] = 1 /\ Matched[9] = 1 /\ Matched[12] = 1
    /\ imageCall.result = ImageOf(THEMED_JOURNAL_IMAGES[1])

\* the static dataset as the completed read operation asks it
StaticFallback ==
    IF readRet.op = "fetchAllArticles" THEN getAllArticles
    ELSE getArticlesByCategory(readRet.category)

\* C26: a read operation of the facade whose live path failed returns, and
\* does not raise: latestArticles when the cache is not empty, and only
\* otherwise what the static dataset gives
FallbackTiers ==
    readRet.failed =>
        /\ readRet.outcome = "returned"
        /\ readRet.result = IF Len(readRet.cacheAtCatch) > 0
                            THEN readRet.cacheAtCatch
                            ELSE StaticFallback

----------------------------------------------------------------------------
\* C31: a checkForNewArticles call returns true if and only if that call
\* overwrote the cache record, also when an article-update listener raises
\* during the notification fan-out.
ReturnAgreesWithWrite ==
    (ret.op = "check" /\ ~ret.poll) =>
        /\ ret.outcome = "returned"
        /\ ret.flag <=> ret.wrote

----------------------------------------------------------------------------
\* the last completed call is a check whose upstream request failed
CheckRequestFailed ==
    /\ ret.op = "check" /\ ~ret.poll
    /\ ret.requested /\ ret.resp.kind # "ok"

\* the start times of the checks whose request has failed or is still out
WindowStarts ==
    {calls[s].stamp : s \in {r \in Slots : calls[r].op = "check"
                                              /\ calls[r].pc = "fetch"}}
    \cup (IF CheckRequestFailed THEN {ret.stamp} ELSE {})

\* a step that is a call of checkForNewArticles
CheckCalled ==
    \/ ret' # ret /\ ret'.op = "check" /\ ~ret'.requested /\ calls' = calls
    \/ \E s \in Slots : calls[s].op = "none" /\ calls'[s].op = "check"

\* C32: lastFetchTimestamp is set when a check starts, before its request is
\* issued, and a failing request does not restore it; a checkForNewArticles
\* call made fewer than 30 seconds after the start of a check whose request
\* failed (or has not come back yet) returns false and issues no request
FailedCheckConsumesWindow ==
    /\ [](\A s \in Slots :
            (calls[s].op = "check" /\ calls[s].pc = "fetch") =>
                /\ calls[s].stamp = calls[s].startNow
                /\ lastFetchTimestamp >= calls[s].stamp)
    /\ [](CheckRequestFailed =>
            /\ ret.outcome = "returned" /\ ~ret.flag
            /\ ret.stamp = ret.startNow
            /\ ret.endLast >= ret.stamp
            /\ lastFetchTimestamp >= ret.stamp)
    /\ [][\A start \in WindowStarts :
            (CheckCalled /\ now - start < DebounceMs) =>
                /\ ret'.op = "check"
                /\ ret'.outcome = "returned" /\ ~ret'.flag
                /\ ~ret'.requested
                /\ requests' = requests
                /\ calls' = calls
                /\ lastFetchTimestamp' = lastFetchTimestamp]_vars

\* the only request issued was the one of a check that started at
\* lastFetchTimestamp and failed (nothing was persisted), and a call made one
\* tick later returned false without a request
FailedCheckConsumesWindowWitness ==
    /\ ret.op = "check" /\ ~ret.poll
    /\ ~ret.requested /\ ~ret.flag
    /\ ret.startLast = lastFetchTimestamp
    /\ lastFetchTimestamp >= StartMs
    /\ ret.startNow = lastFetchTimestamp + TickMs
    /\ requests = 1
    /\ storage = NoItem
    /\ \A s \in Slots : calls[s] = Idle

----------------------------------------------------------------------------
(* Properties of the facade caches *)

\* an article the journal layer made, not one a provider returned
IsJournalEntry(article) == "summary" \in DOMAIN article

\* the articles of latestArticles behind the first n
JournalPart(n) == SubSeq(latestArticles, n + 1, Len(latestArticles))

\* C33: latestArticles is empty, or it is latestMediaStackArticles followed
\* by journal entries, whatever fetchAllArticles calls and journal updates
\* have taken place and however they were interleaved
FacadeCacheInvariant ==
    LET n == Len(latestMediaStackArticles)
    IN  \/ latestArticles = <<>>
        \/ /\ Len(latestArticles) >= n
           /\ SubSeq(latestArticles, 1, n) = latestMediaStackArticles
           /\ \A i \in 1..Len(JournalPart(n)) : IsJournalEntry(JournalPart(n)[i])

\* a fetchAllArticles call has cached a provider list, a journal update has
\* since merged its entries behind that list, and a forced refresh is
\* awaiting the provider
FacadeCacheInvariantWitness ==
    /\ readRet.op = "fetchAllArticles" /\ ~readRet.failed
    /\ Len(latestMediaStackArticles) > 0
    /\ published.happened
    /\ latestArticles = published.payload
    /\ latestArticles # readRet.result
    /\ Len(latestArticles) > Len(latestMediaStackArticles)
    /\ readCall.op = "fetchAllArticles" /\ readCall.forceRefresh
    /\ readCall.pc = "mediastack"

----------------------------------------------------------------------------
\* C34: isCurrentlyChecking is true exactly while a check run started by the
\* poller is between its start and its completion, also when a
\* checking-status listener raises while it is notified
GuardMatchesInFlight == isCurrentlyChecking <=> PollsInFlight > 0

====
